---------------------------- MODULE Spec2Model ----------------------------
(***************************************************************************)
(* A model of the two scripts of the repository:                           *)
(*   scripts/check_events.py      - the event consistency checker          *)
(*   scripts/perfmon2perfspect.py - the metric translator and reconciler   *)
(* A Python string is a sequence of one-character strings, a Python index  *)
(* is 0-based, and find/slice/startswith/replace are computed as Python    *)
(* computes them.                                                          *)
(***************************************************************************)
EXTENDS Integers, Sequences, FiniteSets, TLC

(***************************************************************************)
(* Bounds of the model.                                                    *)
(***************************************************************************)
\* fragments in all the expressions of the checker's metrics document
MaxDocFrags == 2
\* iterations of the bracket scan of one metric (the scan may never end)
MaxScan == 3
\* lines of the events file
MaxLines == 2

(***************************************************************************)
(* Python's str operations.                                                *)
(***************************************************************************)
Range(s) == {s[k] : k \in 1..Len(s)}

\* normalisation of a slice bound: negative counts from the end, then clamp
SliceBound(n, b) ==
  LET c == IF b < 0 THEN b + n ELSE b
  IN IF c < 0 THEN 0 ELSE IF c > n THEN n ELSE c

\* s[a:b]
Slice(s, a, b) ==
  SubSeq(s, SliceBound(Len(s), a) + 1, SliceBound(Len(s), b))

\* s[a:]
SliceFrom(s, a) == SubSeq(s, SliceBound(Len(s), a) + 1, Len(s))

\* whether sub occurs in s at 0-based index i
MatchAt(s, sub, i) ==
  /\ i >= 0
  /\ i + Len(sub) <= Len(s)
  /\ \A k \in 1..Len(sub) : s[i + k] = sub[k]

\* s.find(sub): the lowest 0-based index of sub in s, -1 when there is none
Find(s, sub) ==
  LET hits == {i \in 0..(Len(s) - Len(sub)) : MatchAt(s, sub, i)}
  IN IF hits = {} THEN -1 ELSE CHOOSE i \in hits : \A j \in hits : i <= j

\* s.startswith(prefix)
StartsWith(s, prefix) == MatchAt(s, prefix, 0)

RECURSIVE Replace(_, _, _)
\* s.replace(old, new), for a non-empty old: the leftmost occurrence is
\* replaced, then those of the text after it
Replace(s, old, new) ==
  LET i == Find(s, old)
  IN IF i < 0 THEN s
     ELSE SubSeq(s, 1, i) \o new
            \o Replace(SubSeq(s, i + Len(old) + 1, Len(s)), old, new)

RECURSIVE Concats(_, _)
\* the strings made by concatenating at most n fragments of F
Concats(F, n) ==
  IF n = 0 THEN {<<>>}
  ELSE LET shorter == Concats(F, n - 1)
       IN shorter \cup {f \o t : f \in F, t \in shorter}

(***************************************************************************)
(* The state of check_events.py.                                           *)
(***************************************************************************)
VARIABLES
  metrics,        \* the metrics document: the expression of each metric
  events,         \* the events file: its lines, as iterating the file
                  \* yields them
  pc,             \* where the script is
  mi,             \* metrics of the document iterated so far
  formula,        \* the text of the current expression still to scan
  start_bracket,  \* index of the first "[" of formula, -1 when none
  m_events,       \* the tokens recorded for the current metric
  metric_list,    \* the tokens recorded for each finished metric
  used_events,    \* dict event -> count, as <<event, count>> in key order
  li,             \* lines of the events file read so far
  line,           \* the line read last
  event_list,     \* the declared events
  missing_events,
  unused_events

chkVars == <<metrics, events, pc, mi, formula, start_bracket, m_events,
             metric_list, used_events, li, line, event_list, missing_events,
             unused_events>>

(***************************************************************************)
(* The state of perfmon2perfspect.py.  A JSON file holds the document      *)
(* written to it: json.dumps followed by json.load gives back the lists,   *)
(* objects and strings it was given.                                       *)
(***************************************************************************)
VARIABLES
  argc,           \* len(sys.argv)
  mf,             \* the document of inFile: kind says whether "Metrics" is
                  \* absent, null or an array
  files,          \* the files at outFile (out), usedFile (used) and
                  \* filteredFile (final): exists, and the document held
  tpc,            \* where the script is
  vars,           \* the alias table, a dict alias -> name
  result,         \* the translated metrics so far
  ti              \* metrics of mf["Metrics"] translated so far

trVars == <<argc, mf, files, tpc, vars, result, ti>>

(***************************************************************************)
(* The state of the replacement pass taken on its own: the entries of the  *)
(* table applied one at a time, in any order.                              *)
(***************************************************************************)
VARIABLES
  text0,          \* the string the pass started from
  text,           \* the working string
  applied         \* the entries of the table applied so far

rpVars == <<text0, text, applied>>

allVars == <<chkVars, trVars, rpVars>>

\* Python's None: no string, since a string has one character per element
None == <<"None">>

(***************************************************************************)
(* Each script is checked on its own: the state of a script not running.    *)
(***************************************************************************)
ChkIdle ==
  /\ metrics = <<>>
  /\ events = <<>>
  /\ pc = "off"
  /\ mi = 0
  /\ formula = <<>>
  /\ start_bracket = -1
  /\ m_events = <<>>
  /\ metric_list = <<>>
  /\ used_events = <<>>
  /\ li = 0
  /\ line = <<>>
  /\ event_list = <<>>
  /\ missing_events = <<>>
  /\ unused_events = <<>>

TrIdle ==
  /\ argc = 0
  /\ mf = [kind |-> "absent", Metrics |-> <<>>]
  /\ files = <<>>
  /\ tpc = "off"
  /\ vars = <<>>
  /\ result = <<>>
  /\ ti = 0

RpIdle ==
  /\ text0 = <<>>
  /\ text = <<>>
  /\ applied = {}

ConstPrefix == <<"c", "o", "n", "s", "t", "_">>
NameKey == <<"n", "a", "m", "e", "=">>
NL == "\n"

\* the metric expression and the events file of section 8 of the spec
ExampleExpr ==
  <<"[", "A", "]", " ", "+", " ", "[", "B", ":", "c", "1", "]", " ", "-",
    " ", "[", "c", "o", "n", "s", "t", "_", "X", "]">>
ExampleEvents ==
  <<<<"A", NL>>, <<"n", "a", "m", "e", "=", "'", "B", "'", NL>>>>

\* the pieces of a metric expression: a reference, one with a modifier, a
\* constant, and the two brackets on their own
ExprFrags ==
  {<<"[", "A", "]">>,
   <<"[", "B", ":", "A", "]">>,
   <<"[">> \o ConstPrefix \o <<"A", "]">>,
   <<"]">>,
   <<"[">>}

RECURSIVE Docs(_)
\* the metrics documents whose expressions are made of at most n fragments
\* in all (an empty expression counts as one)
Docs(n) ==
  IF n = 0 THEN {<<>>}
  ELSE {<<>>} \cup
       UNION {{<<e>> \o d : e \in (Concats(ExprFrags, k) \ Concats(ExprFrags, k - 1))
                                  \cup (IF k = 1 THEN {<<>>} ELSE {}),
                            d \in Docs(n - k)} : k \in 1..n}

\* the lines of an events file, without their newline: a bare event with
\* its separator, a bare event without, two events with a name= assignment,
\* a comment
LineBodies ==
  {<<"A", ",">>,
   <<"B">>,
   NameKey \o <<"'", "A", "'">>,
   <<"x", "/">> \o NameKey \o <<"'", "B", ":", "c", "'", "/", ",">>,
   <<"#", "A", ",">>}

RECURSIVE Bodies(_)
Bodies(n) ==
  IF n = 0 THEN {<<>>}
  ELSE Bodies(n - 1) \cup {Append(f, b) : f \in Bodies(n - 1), b \in LineBodies}

\* the events files of at most n lines: every line ends with its newline,
\* but the last line of a file may have none
Files(n) ==
  {[k \in 1..Len(f) |-> f[k] \o <<NL>>] : f \in Bodies(n)}
    \cup {[k \in 1..Len(f) |-> IF k < Len(f) THEN f[k] \o <<NL>> ELSE f[k]] :
            f \in Bodies(n) \ {<<>>}}

\* the keys of a dict, in insertion order
Keys(d) == [k \in 1..Len(d) |-> d[k][1]]

\* lines 41-42 and 17-18: cut at the first colon unless it is the first
\* character
CutColon(x) ==
  IF Find(x, <<":">>) > 0 THEN Slice(x, 0, Find(x, <<":">>)) ELSE x

\* line 44: used_events[event] = used_events.get(event, 0) + 1
Count(d, event) ==
  IF \E k \in 1..Len(d) : d[k][1] = event
  THEN [k \in 1..Len(d) |->
          IF d[k][1] = event THEN <<event, d[k][2] + 1>> ELSE d[k]]
  ELSE Append(d, <<event, 1>>)

\* lines 43-44 without the test of line 43
Record_NoConstTest(d, event) == Count(d, event)

\* lines 43-44
Record(d, event) ==
  IF ~StartsWith(event, ConstPrefix) THEN Count(d, event) ELSE d

\* lines 11-23 with line 20 dropping the newline only
get_event_DropOne(l) ==
  IF l # <<>> /\ ~StartsWith(l, <<"#">>)
  THEN IF Find(l, NameKey) >= 0
       THEN LET x1 == SliceFrom(l, Find(l, NameKey) + 5)
                x2 == SliceFrom(x1, Find(x1, <<"'">>) + 1)
                x3 == Slice(x2, 0, Find(x2, <<"'">>))
            IN CutColon(x3)
       ELSE Slice(l, 0, -1)
  ELSE None

\* lines 11-23
get_event(l) ==
  IF l # <<>> /\ ~StartsWith(l, <<"#">>)
  THEN IF Find(l, NameKey) >= 0
       THEN LET x1 == SliceFrom(l, Find(l, NameKey) + 5)
                x2 == SliceFrom(x1, Find(x1, <<"'">>) + 1)
                x3 == Slice(x2, 0, Find(x2, <<"'">>))
            IN CutColon(x3)
       ELSE Slice(l, 0, -2)
  ELSE None

\* lines 54-55
Declare(evl, event) ==
  IF event # None /\ event # <<>> /\ event \notin Range(evl)
  THEN Append(evl, event)
  ELSE evl

\* line 57
MissingEvents(used, evl) ==
  SelectSeq(Keys(used), LAMBDA x : x \notin Range(evl))

\* line 58
UnusedEvents(used, evl) ==
  SelectSeq(evl, LAMBDA x : x \notin Range(Keys(used)))

\* lines 26-32: the two files are given, the metrics document is loaded
InitCheck ==
  /\ metrics \in Docs(MaxDocFrags) \cup {<<ExampleExpr>>}
  /\ events \in Files(MaxLines) \cup {ExampleEvents}
  /\ pc = "metrics"
  /\ mi = 0
  /\ formula = <<>>
  /\ start_bracket = -1
  /\ m_events = <<>>
  /\ metric_list = <<>>
  /\ used_events = <<>>
  /\ li = 0
  /\ line = <<>>
  /\ event_list = <<>>
  /\ missing_events = <<>>
  /\ unused_events = <<>>
  /\ TrIdle
  /\ RpIdle

\* lines 33-37: the next metric of the document
NextMetric ==
  /\ pc = "metrics"
  /\ mi < Len(metrics)
  /\ mi' = mi + 1
  /\ formula' = metrics[mi + 1]
  /\ start_bracket' = Find(metrics[mi + 1], <<"[">>)
  /\ m_events' = <<>>
  /\ pc' = "scan"
  /\ UNCHANGED <<metrics, events, metric_list, used_events, li, line,
                 event_list, missing_events, unused_events>>
  /\ UNCHANGED <<trVars, rpVars>>

\* lines 38-47: one iteration of the while loop
ScanStep ==
  /\ pc = "scan"
  /\ start_bracket >= 0
  /\ Len(m_events) < MaxScan
  /\ LET end_bracket == Find(formula, <<"]">>)
         event == CutColon(Slice(formula, start_bracket + 1, end_bracket))
         rest == SliceFrom(formula, end_bracket + 1)
     IN /\ used_events' = Record(used_events, event)
        /\ m_events' = Append(m_events, event)
        /\ formula' = rest
        /\ start_bracket' = Find(rest, <<"[">>)
  /\ UNCHANGED <<metrics, events, pc, mi, metric_list, li, line, event_list,
                 missing_events, unused_events>>
  /\ UNCHANGED <<trVars, rpVars>>

\* lines 38, 48: the while loop ends; metric_list[metric] = m_events
\* (the metrics of a document have distinct names: the i-th is metric i)
EndMetric ==
  /\ pc = "scan"
  /\ start_bracket < 0
  /\ metric_list' = Append(metric_list, m_events)
  /\ pc' = "metrics"
  /\ UNCHANGED <<metrics, events, mi, formula, start_bracket, m_events,
                 used_events, li, line, event_list, missing_events,
                 unused_events>>
  /\ UNCHANGED <<trVars, rpVars>>

\* lines 33, 50-51: the document has no more metrics; the events file opens
EndMetrics ==
  /\ pc = "metrics"
  /\ mi = Len(metrics)
  /\ pc' = "events"
  /\ UNCHANGED <<metrics, events, mi, formula, start_bracket, m_events,
                 metric_list, used_events, li, line, event_list,
                 missing_events, unused_events>>
  /\ UNCHANGED <<trVars, rpVars>>

\* lines 52-55: the next line of the events file
ReadLine ==
  /\ pc = "events"
  /\ li < Len(events)
  /\ li' = li + 1
  /\ line' = events[li + 1]
  /\ event_list' = Declare(event_list, get_event(events[li + 1]))
  /\ UNCHANGED <<metrics, events, pc, mi, formula, start_bracket, m_events,
                 metric_list, used_events, missing_events, unused_events>>
  /\ UNCHANGED <<trVars, rpVars>>

\* lines 52, 57-62: the events file ends; the two lists are made and printed
Report ==
  /\ pc = "events"
  /\ li = Len(events)
  /\ missing_events' = MissingEvents(used_events, event_list)
  /\ unused_events' = UnusedEvents(used_events, event_list)
  /\ pc' = "done"
  /\ UNCHANGED <<metrics, events, mi, formula, start_bracket, m_events,
                 metric_list, used_events, li, line, event_list>>
  /\ UNCHANGED <<trVars, rpVars>>

NextCheck ==
  \/ NextMetric
  \/ ScanStep
  \/ EndMetric
  \/ EndMetrics
  \/ ReadLine
  \/ Report


SpecCheck == InitCheck /\ [][NextCheck]_allVars

(***************************************************************************)
(* perfmon2perfspect.py                                                    *)
(***************************************************************************)
\* bounds of the translator's inputs
\* fragments concatenated into the Formula of a metric
MaxFormulaFrags == 3
\* entries of the Events, and of the Constants, of a metric
MaxAliases == 1
\* metrics of a document of several metrics
MaxTMetrics == 2
\* entries of the current perfspect metrics file
MaxUsed == 2

\* lines 11-20: the patterns (Key) and replacements (Val) of varMap
\* "[INST_RETIRED.ANY]"
Key1 ==
  <<"[", "I", "N", "S", "T", "_", "R", "E", "T", "I", "R", "E", "D", ".",
  "A", "N", "Y", "]">>
\* "[instructions]"
Val1 ==
  <<"[", "i", "n", "s", "t", "r", "u", "c", "t", "i", "o", "n", "s", "]">>
\* "[CPU_CLK_UNHALTED.THREAD]"
Key2 ==
  <<"[", "C", "P", "U", "_", "C", "L", "K", "_", "U", "N", "H", "A", "L",
  "T", "E", "D", ".", "T", "H", "R", "E", "A", "D", "]">>
\* "[cpu-cycles]"
Val2 == <<"[", "c", "p", "u", "-", "c", "y", "c", "l", "e", "s", "]">>
\* "[CPU_CLK_UNHALTED.REF]"
Key3 ==
  <<"[", "C", "P", "U", "_", "C", "L", "K", "_", "U", "N", "H", "A", "L",
  "T", "E", "D", ".", "R", "E", "F", "]">>
\* "[ref-cycles]"
Val3 == <<"[", "r", "e", "f", "-", "c", "y", "c", "l", "e", "s", "]">>
\* "[CPU_CLK_UNHALTED.REF_TSC]"
Key4 ==
  <<"[", "C", "P", "U", "_", "C", "L", "K", "_", "U", "N", "H", "A", "L",
  "T", "E", "D", ".", "R", "E", "F", "_", "T", "S", "C", "]">>
\* "[ref-cycles]"
Val4 == <<"[", "r", "e", "f", "-", "c", "y", "c", "l", "e", "s", "]">>
\* "DURATIONTIMEINSECONDS"
Key5 ==
  <<"D", "U", "R", "A", "T", "I", "O", "N", "T", "I", "M", "E", "I", "N",
  "S", "E", "C", "O", "N", "D", "S">>
\* "1"
Val5 == <<"1">>
\* "[DURATIONTIMEINMILLISECONDS]"
Key6 ==
  <<"[", "D", "U", "R", "A", "T", "I", "O", "N", "T", "I", "M", "E", "I",
  "N", "M", "I", "L", "L", "I", "S", "E", "C", "O", "N", "D", "S", "]">>
\* "1000"
Val6 == <<"1", "0", "0", "0">>
\* "[TOPDOWN.SLOTS:perf_metrics]"
Key7 ==
  <<"[", "T", "O", "P", "D", "O", "W", "N", ".", "S", "L", "O", "T", "S",
  ":", "p", "e", "r", "f", "_", "m", "e", "t", "r", "i", "c", "s", "]">>
\* "[TOPDOWN.SLOTS]"
Val7 ==
  <<"[", "T", "O", "P", "D", "O", "W", "N", ".", "S", "L", "O", "T", "S",
  "]">>
\* "[OFFCORE_REQUESTS_OUTSTANDING.ALL_DATA_RD:c4]"
Key8 ==
  <<"[", "O", "F", "F", "C", "O", "R", "E", "_", "R", "E", "Q", "U", "E",
  "S", "T", "S", "_", "O", "U", "T", "S", "T", "A", "N", "D", "I", "N",
  "G", ".", "A", "L", "L", "_", "D", "A", "T", "A", "_", "R", "D", ":",
  "c", "4", "]">>
\* "[OFFCORE_REQUESTS_OUTSTANDING.DATA_RD:c4]"
Val8 ==
  <<"[", "O", "F", "F", "C", "O", "R", "E", "_", "R", "E", "Q", "U", "E",
  "S", "T", "S", "_", "O", "U", "T", "S", "T", "A", "N", "D", "I", "N",
  "G", ".", "D", "A", "T", "A", "_", "R", "D", ":", "c", "4", "]">>

\* entry 3 of the table written without its brackets
\* "CPU_CLK_UNHALTED.REF"
Key3_NoBrackets ==
  <<"C", "P", "U", "_", "C", "L", "K", "_", "U", "N", "H", "A", "L", "T",
  "E", "D", ".", "R", "E", "F">>
\* "ref-cycles"
Val3_NoBrackets == <<"r", "e", "f", "-", "c", "y", "c", "l", "e", "s">>

\* lines 11-20 with entry 3 written without its brackets
varMap_Entry3NoBrackets ==
  <<<<Key1, Val1>>, <<Key2, Val2>>, <<Key3_NoBrackets, Val3_NoBrackets>>,
    <<Key4, Val4>>, <<Key5, Val5>>, <<Key6, Val6>>, <<Key7, Val7>>,
    <<Key8, Val8>>>>

\* lines 11-20: the table, in its order
varMap ==
  <<<<Key1, Val1>>, <<Key2, Val2>>, <<Key3, Val3>>, <<Key4, Val4>>,
    <<Key5, Val5>>, <<Key6, Val6>>, <<Key7, Val7>>, <<Key8, Val8>>>>

\* str.isalpha, for the letters of ASCII
Alpha ==
  {"a", "b", "c", "d", "e", "f", "g", "h", "i", "j", "k", "l", "m", "n", "o",
   "p", "q", "r", "s", "t", "u", "v", "w", "x", "y", "z",
   "A", "B", "C", "D", "E", "F", "G", "H", "I", "J", "K", "L", "M", "N", "O",
   "P", "Q", "R", "S", "T", "U", "V", "W", "X", "Y", "Z"}

\* lines 44 and 47 with the test for "_" left out
IsIdentChar_AlphaOnly(c) == c \in Alpha

\* lines 44 and 47: formula[i].isalpha() or formula[i] == "_"
IsIdentChar(c) == c \in Alpha \/ c = "_"

\* d[k] = x on a dict, a function from its keys
Put(d, k, x) == [a \in DOMAIN d \cup {k} |-> IF a = k THEN x ELSE d[a]]

\* d.get(k)
Get(d, k) == IF k \in DOMAIN d THEN d[k] ELSE None

\* line 33 left out: the table is kept
ClearVars_Kept(v) == v

\* line 33: vars.clear()
ClearVars(v) == <<>>

RECURSIVE PutAll(_, _)
\* lines 36-37 and 38-39: vars[e["Alias"]] = e["Name"] for each entry
PutAll(v, defs) ==
  IF defs = <<>> THEN v
  ELSE PutAll(Put(v, Head(defs).Alias, Head(defs).Name), Tail(defs))

\* lines 36-39
Populate(v, m) == PutAll(PutAll(v, m.Events), m.Constants)

RECURSIVE RunEnd(_, _)
\* lines 46-49: the 0-based index just after the run of identifier
\* characters that k is in or after
RunEnd(f, k) ==
  IF k < Len(f) /\ IsIdentChar(f[k + 1]) THEN RunEnd(f, k + 1) ELSE k

RECURSIVE RewriteFrom(_, _, _)
\* lines 43-57: what the while loop adds to newFormula from index i on
RewriteFrom(f, v, i) ==
  IF i >= Len(f) THEN <<>>
  ELSE IF IsIdentChar(f[i + 1])
       THEN LET k == RunEnd(f, i + 1)
                x == SubSeq(f, i + 1, k)
            IN (IF Get(v, x) # None
                THEN <<"[">> \o v[x] \o <<"]">>
                ELSE SubSeq(f, i + 1, k))
               \o RewriteFrom(f, v, k)
       ELSE <<f[i + 1]>> \o RewriteFrom(f, v, i + 1)

\* lines 40-57
Rewrite(f, v) == RewriteFrom(f, v, 0)

RECURSIVE ApplyFrom(_, _, _)
\* lines 59-60, from entry k of the table on
ApplyFrom(s, table, k) ==
  IF k > Len(table) THEN s
  ELSE ApplyFrom(Replace(s, table[k][1], table[k][2]), table, k + 1)

\* lines 59-60: for v in varMap: newFormula = newFormula.replace(v, varMap[v])
ApplyVarMap(s) == ApplyFrom(s, varMap, 1)

\* line 25 with the test "if not mf.get(...)": an empty array counts as none
NoMetrics_Falsy(d) == d.kind # "array" \/ d.Metrics = <<>>

\* line 25: mf.get("Metrics") is None
NoMetrics(d) == d.kind # "array"

\* a file that is not there, and a file holding a document
FileAbsent == [exists |-> FALSE, doc |-> <<>>]
FileOf(doc) == [exists |-> TRUE, doc |-> doc]

\* what find_metric returns when it returns None
NotFound == [none |-> TRUE]

\* the index of the last entry of mList named mName
find_metric_Last(mList, mName) ==
  IF \E k \in 1..Len(mList) : mList[k].name = mName
  THEN mList[CHOOSE k \in 1..Len(mList) :
               /\ mList[k].name = mName
               /\ \A j \in 1..Len(mList) : mList[j].name = mName => j <= k]
  ELSE NotFound

\* lines 72-76
find_metric(mList, mName) ==
  IF \E k \in 1..Len(mList) : mList[k].name = mName
  THEN mList[CHOOSE k \in 1..Len(mList) :
               /\ mList[k].name = mName
               /\ \A j \in 1..Len(mList) : mList[j].name = mName => k <= j]
  ELSE NotFound

\* line 94: m["origin"] = "perfspect"
WithOrigin(m) ==
  [f \in DOMAIN m \cup {"origin"} |->
     IF f = "origin" THEN "perfspect" ELSE m[f]]

\* lines 88-95
Reconciled(allMetrics, usedMetrics) ==
  [k \in 1..Len(usedMetrics) |->
     LET found == find_metric(allMetrics, usedMetrics[k].name)
     IN IF found # NotFound THEN found ELSE WithOrigin(usedMetrics[k])]

(***************************************************************************)
(* The translator's inputs.                                                *)
(***************************************************************************)
RECURSIVE SeqsUpTo(_, _)
\* the sequences of at most n elements of S
SeqsUpTo(S, n) ==
  IF n = 0 THEN {<<>>}
  ELSE SeqsUpTo(S, n - 1)
         \cup {Append(q, x) : q \in SeqsUpTo(S, n - 1), x \in S}

\* "EVT_A", "EVT_B", "INST_RETIRED.ANY"
EVT_A == <<"E", "V", "T", "_", "A">>
EVT_B == <<"E", "V", "T", "_", "B">>
INST_RETIRED_ANY == SubSeq(Key1, 2, Len(Key1) - 1)

AliasDef(a, n) == [Alias |-> a, Name |-> n]

EventDefs ==
  {AliasDef(<<"a">>, EVT_A),
   AliasDef(<<"a">>, INST_RETIRED_ANY),
   AliasDef(<<"a", "_", "b">>, EVT_B)}

ConstDefs ==
  {AliasDef(<<"b">>, Key5),
   AliasDef(<<"a">>, EVT_B)}

FormulaFrags == {<<"a">>, <<"b">>, <<"_">>}

\* the formula "a * 2" of section 8 of the spec
ExampleFormula == <<"a", " ", "*", " ", "2">>

\* the formula "a*b"
ProductFormula == <<"a", "*", "b">>

PerfmonMetric(n, e, c, f) ==
  [LegacyName |-> n, Events |-> e, Constants |-> c, Formula |-> f]

\* the metrics of the documents of one metric
RichMetrics ==
  {PerfmonMetric("m1", e, c, f) :
     e \in SeqsUpTo(EventDefs, MaxAliases),
     c \in SeqsUpTo(ConstDefs, MaxAliases),
     f \in Concats(FormulaFrags, MaxFormulaFrags)
            \cup {ExampleFormula, ProductFormula}}

\* the metrics of the documents of several metrics
SmallMetrics ==
  {PerfmonMetric(n, e, c, f) :
     n \in {"m1", "m2"},
     e \in {<<>>, <<AliasDef(<<"a">>, EVT_A)>>,
            <<AliasDef(<<"a">>, INST_RETIRED_ANY)>>},
     c \in {<<>>, <<AliasDef(<<"b">>, Key5)>>},
     f \in {ProductFormula}}

\* the metrics of the documents given to the command line
MainMetrics ==
  {PerfmonMetric(n, <<AliasDef(<<"a">>, <<"X">>)>>, <<>>, f) :
     n \in {"m1", "m2"}, f \in {<<"a">>, <<"b">>}}

WithMetrics(d) == [kind |-> "array", Metrics |-> d]
WithoutMetrics ==
  {[kind |-> "absent", Metrics |-> <<>>], [kind |-> "null", Metrics |-> <<>>]}

\* a translated file left at outFile by an earlier run
StaleOut ==
  FileOf(<<[name |-> "m2",
            expression |-> <<"[", "S", "T", "A", "L", "E", "]">>]>>)

\* the entries of the current perfspect metrics file
UsedEntries ==
  {[name |-> "m1", expression |-> <<"[", "O", "L", "D", "]">>],
   [name |-> "m2", expression |-> <<"[", "Y", "]">>],
   [name |-> "m3", expression |-> <<"[", "Y", "]">>, origin |-> "perfspect"]}

\* the state the script starts in, but for its inputs
InitLocals ==
  /\ tpc = "main"
  /\ vars = <<>>
  /\ result = <<>>
  /\ ti = 0

\* translate alone: two file arguments
InitTranslate ==
  /\ argc = 3
  /\ \/ /\ mf \in {WithMetrics(<<m>>) : m \in RichMetrics}
        /\ files = [out |-> FileAbsent, used |-> FileAbsent,
                    final |-> FileAbsent]
     \/ /\ mf \in {WithMetrics(d) : d \in SeqsUpTo(SmallMetrics, MaxTMetrics)}
                   \cup WithoutMetrics
        /\ files \in {[out |-> o, used |-> FileAbsent, final |-> FileAbsent] :
                        o \in {FileAbsent, StaleOut}}
  /\ InitLocals
  /\ ChkIdle
  /\ RpIdle

\* the command line, with any number of arguments
InitMain ==
  /\ argc \in 2..6
  /\ mf \in {WithMetrics(d) : d \in SeqsUpTo(MainMetrics, MaxTMetrics)}
              \cup WithoutMetrics
  /\ files \in {[out |-> o, used |-> FileOf(u), final |-> FileAbsent] :
                  o \in {FileAbsent, StaleOut},
                  u \in SeqsUpTo(UsedEntries, MaxUsed)}
  /\ InitLocals
  /\ ChkIdle
  /\ RpIdle

(***************************************************************************)
(* The translator's steps.                                                 *)
(***************************************************************************)
\* lines 108-109: too few arguments
Main_Exit ==
  /\ tpc = "main"
  /\ argc < 3
  /\ tpc' = "exit1"
  /\ UNCHANGED <<argc, mf, files, vars, result, ti>>
  /\ UNCHANGED <<chkVars, rpVars>>

\* lines 111, 22-31: translate is called and loads inFile; without Metrics
\* it prints the error and returns
Tr_Begin ==
  /\ tpc = "main"
  /\ argc >= 3
  /\ IF NoMetrics(mf)
     THEN /\ tpc' = "returned"
          /\ UNCHANGED <<vars, result, ti>>
     ELSE /\ vars' = <<>>
          /\ result' = <<>>
          /\ ti' = 0
          /\ tpc' = "loop"
  /\ UNCHANGED <<argc, mf, files>>
  /\ UNCHANGED <<chkVars, rpVars>>

\* lines 32-62: one metric of the document
Tr_Metric ==
  /\ tpc = "loop"
  /\ ti < Len(mf.Metrics)
  /\ LET m == mf.Metrics[ti + 1]
         v == Populate(ClearVars(vars), m)
         newFormula == ApplyVarMap(Rewrite(m.Formula, v))
     IN /\ vars' = v
        /\ result' = Append(result, [name |-> m.LegacyName,
                                     expression |-> newFormula])
  /\ ti' = ti + 1
  /\ UNCHANGED <<argc, mf, files, tpc>>
  /\ UNCHANGED <<chkVars, rpVars>>

\* lines 32, 64-67: the loop ends and the result is written to outFile
Tr_Write ==
  /\ tpc = "loop"
  /\ ti = Len(mf.Metrics)
  /\ files' = [files EXCEPT !.out = FileOf(result)]
  /\ tpc' = "returned"
  /\ UNCHANGED <<argc, mf, vars, result, ti>>
  /\ UNCHANGED <<chkVars, rpVars>>

\* lines 113-114, 83-100: with four file arguments the final list is made
\* from the files at outFile and usedFile and written to filteredFile; when
\* there is no file at outFile, open raises and the script ends in error
Main_Reconcile ==
  /\ tpc = "returned"
  /\ argc = 5
  /\ IF files.out.exists
     THEN /\ files' = [files EXCEPT
                         !.final = FileOf(Reconciled(files.out.doc,
                                                     files.used.doc))]
          /\ tpc' = "done"
     ELSE /\ tpc' = "error"
          /\ UNCHANGED files
  /\ UNCHANGED <<argc, mf, vars, result, ti>>
  /\ UNCHANGED <<chkVars, rpVars>>

\* line 113: without four file arguments the script ends
Main_End ==
  /\ tpc = "returned"
  /\ argc # 5
  /\ tpc' = "done"
  /\ UNCHANGED <<argc, mf, files, vars, result, ti>>
  /\ UNCHANGED <<chkVars, rpVars>>

NextTranslate ==
  \/ Tr_Begin
  \/ Tr_Metric
  \/ Tr_Write
  \/ Main_End

NextMain ==
  \/ Main_Exit
  \/ Tr_Begin
  \/ Tr_Metric
  \/ Tr_Write
  \/ Main_Reconcile
  \/ Main_End

SpecTranslate == InitTranslate /\ [][NextTranslate]_allVars

SpecMain == InitMain /\ [][NextMain]_allVars

(***************************************************************************)
(* The replacement pass of lines 59-60 on its own, its entries applied in  *)
(* any order.                                                              *)
(***************************************************************************)
\* fragments concatenated into the string the pass starts from
MaxTextFrags == 2

\* texts holding the patterns of the table, and "[CPU_CLK_UNHALTED.REF",
\* the text the patterns of entries 3 and 4 both start with
TextFrags ==
  {Key1 \o Key2, Key3, Key4, Key5, Key6, Key7 \o Key8,
   SubSeq(Key3, 1, Len(Key3) - 1)}

InitReplace ==
  /\ text0 \in Concats(TextFrags, MaxTextFrags)
  /\ text = text0
  /\ applied = {}
  /\ ChkIdle
  /\ TrIdle

\* line 60, for one entry v of the table not applied yet
ApplyEntry ==
  /\ \E k \in (1..Len(varMap)) \ applied :
       /\ text' = Replace(text, varMap[k][1], varMap[k][2])
       /\ applied' = applied \cup {k}
  /\ UNCHANGED text0
  /\ UNCHANGED <<chkVars, trVars>>

NextReplace == ApplyEntry

SpecReplace == InitReplace /\ [][NextReplace]_allVars

(***************************************************************************)
(* The checker's claims.                                                   *)
(***************************************************************************)
RECURSIVE Flatten(_)
Flatten(ss) == IF ss = <<>> THEN <<>> ELSE Head(ss) \o Flatten(Tail(ss))

RECURSIVE FirstOccurrences(_)
\* s without the later occurrences of its elements
FirstOccurrences(s) ==
  IF s = <<>> THEN <<>>
  ELSE LET front == FirstOccurrences(SubSeq(s, 1, Len(s) - 1))
       IN IF s[Len(s)] \in Range(front) THEN front
          ELSE Append(front, s[Len(s)])

NoDuplicate(s) == \A j, k \in 1..Len(s) : s[j] = s[k] => j = k

IsConstName(x) == Len(x) >= 6 /\ SubSeq(x, 1, 6) = ConstPrefix

\* the event names recorded over all the metrics, once each, in the order
\* in which they were first recorded
RecordedNames ==
  FirstOccurrences(SelectSeq(Flatten(metric_list),
                             LAMBDA x : ~IsConstName(x)))

\* C1: when check finishes, missingEvents is the recorded names (the tokens
\* of all metrics, cut at their modifier, without the const_ ones) that are
\* not declared, once each in the order first recorded; unusedEvents is the
\* declared names never recorded, in declaration order; neither list has a
\* duplicate and no const_ name is missing.
C1_MissingAndUnused ==
  pc = "done" =>
    /\ missing_events =
         SelectSeq(RecordedNames, LAMBDA x : x \notin Range(event_list))
    /\ unused_events =
         SelectSeq(event_list, LAMBDA x : x \notin Range(RecordedNames))
    /\ NoDuplicate(missing_events)
    /\ NoDuplicate(unused_events)
    /\ \A k \in 1..Len(missing_events) : ~IsConstName(missing_events[k])

\* C1's case: two metrics, one with a constant, one name missing and one
\* unused
C1_Witness ==
  /\ pc = "done"
  /\ Len(metric_list) = 2
  /\ \E x \in Range(Flatten(metric_list)) : IsConstName(x)
  /\ missing_events = <<<<"B">>>>
  /\ unused_events = <<<<"A">>>>

\* a bare declaration line: not empty, no comment, no name= assignment
IsBare(l) ==
  /\ l # <<>>
  /\ l[1] # "#"
  /\ \A i \in 0..(Len(l) - 5) : SubSeq(l, i + 1, i + 5) # NameKey

\* a line without its final two characters
DropTwo(l) == IF Len(l) > 2 THEN SubSeq(l, 1, Len(l) - 2) ELSE <<>>

ExampleRun ==
  pc = "done" /\ metrics = <<ExampleExpr>> /\ events = ExampleEvents

\* C2 as stated: a bare line declares the event it names, so the events
\* file of lines A and name='B' declares [A, B] and the example metric has
\* nothing missing and nothing unused; in general a bare line E read with
\* its newline declares E.
C2_BareLineDeclaresItsName ==
  /\ ExampleRun =>
       /\ event_list = <<<<"A">>, <<"B">>>>
       /\ missing_events = <<>>
       /\ unused_events = <<>>
  /\ \A k \in 1..li :
       (IsBare(events[k]) /\ Len(events[k]) >= 2
          /\ events[k][Len(events[k])] = NL)
       => SubSeq(events[k], 1, Len(events[k]) - 1) \in Range(event_list)

\* C2 as amended: a bare line declares its content without its final two
\* characters (the name, one separator and the newline): the line A, with
\* its newline declares A and the line A with its newline declares nothing,
\* so the example declares [B] alone and reports A as missing; a name so
\* declared is never reported missing.
C2_BareLineDropsTwo ==
  /\ ExampleRun =>
       /\ event_list = <<<<"B">>>>
       /\ missing_events = <<<<"A">>>>
       /\ unused_events = <<>>
  /\ \A k \in 1..li :
       (IsBare(events[k]) /\ DropTwo(events[k]) # <<>>) =>
         /\ DropTwo(events[k]) \in Range(event_list)
         /\ pc = "done" => DropTwo(events[k]) \notin Range(missing_events)
  /\ \A x \in Range(event_list) :
       \E k \in 1..li :
         IF IsBare(events[k]) THEN x = DropTwo(events[k])
         ELSE ~StartsWith(events[k], <<"#">>)

\* C2's case: the bare line A, was read and declared A, which a metric
\* references
C2_Witness ==
  /\ pc = "done"
  /\ Len(events) >= 1
  /\ events[1] = <<"A", ",", NL>>
  /\ <<"A">> \in Range(event_list)
  /\ <<"A">> \in Range(Flatten(metric_list))
  /\ missing_events = <<>>

\* a step that is an iteration of the scan loop
IsScanStep == pc = "scan" /\ pc' = "scan" /\ Len(m_events') = Len(m_events) + 1

\* the 0-based indexes of the "]" after 0-based index s in f
ClosesAfter(f, s) == {e \in (s + 1)..(Len(f) - 1) : f[e + 1] = "]"}

\* C8 (for the expressions that have a "]" after their first "["): every
\* iteration of the scan records the text strictly between the first "["
\* of the remaining text and the first "]" after it, cut at its modifier,
\* and resumes just after that "]"; so no token comes from a stray "]".
C8_TokenIsBetweenBrackets ==
  [][(IsScanStep /\ ClosesAfter(formula, start_bracket) # {}) =>
       LET s == start_bracket
           e == CHOOSE c \in ClosesAfter(formula, s) :
                  \A d \in ClosesAfter(formula, s) : c <= d
       IN /\ m_events' = Append(m_events, CutColon(SubSeq(formula, s + 2, e)))
          /\ formula' = SubSeq(formula, e + 2, Len(formula))]_allVars

\* C9: every iteration of the scan loop strictly shortens the remaining
\* text (so that the loop ends).
C9_ScanShortensText ==
  [][IsScanStep => Len(formula') < Len(formula)]_allVars

(***************************************************************************)
(* The translator's claims.                                                *)
(***************************************************************************)
\* an alphabetic or underscore character
IsWordChar(c) == c \in Alpha \cup {"_"}

\* whether f[i..j] (1-based) is a maximal run of such characters
IsMaximalRun(f, i, j) ==
  /\ 1 <= i /\ i <= j /\ j <= Len(f)
  /\ \A k \in i..j : IsWordChar(f[k])
  /\ i > 1 => ~IsWordChar(f[i - 1])
  /\ j < Len(f) => ~IsWordChar(f[j + 1])

\* the alias definitions of a metric: its Events, then its Constants
AliasDefs(m) == m.Events \o m.Constants

IsAliasOf(m, x) == \E k \in 1..Len(AliasDefs(m)) : AliasDefs(m)[k].Alias = x

\* the Name of alias x: that of its last definition
NameOfAlias(m, x) ==
  LET defs == AliasDefs(m)
      last == CHOOSE k \in 1..Len(defs) :
                /\ defs[k].Alias = x
                /\ \A j \in 1..Len(defs) : defs[j].Alias = x => j <= k
  IN defs[last].Name

\* what position p of the Formula of m contributes to the rewritten formula:
\* an alias run contributes its bracketed Name at its first character and
\* nothing at the others, every other character is copied
PieceAt(m, p) ==
  LET f == m.Formula
      runs == {r \in (1..p) \X (p..Len(f)) : IsMaximalRun(f, r[1], r[2])}
  IN IF \E r \in runs : IsAliasOf(m, SubSeq(f, r[1], r[2]))
     THEN LET r == CHOOSE q \in runs : TRUE
          IN IF r[1] = p
             THEN <<"[">> \o NameOfAlias(m, SubSeq(f, r[1], r[2])) \o <<"]">>
             ELSE <<>>
     ELSE <<f[p]>>

RECURSIVE PiecesUpTo(_, _)
PiecesUpTo(m, p) ==
  IF p = 0 THEN <<>> ELSE PiecesUpTo(m, p - 1) \o PieceAt(m, p)

\* the eight replacements, one after the other in the order of the table
InTableOrder(s) ==
  Replace(Replace(Replace(Replace(Replace(Replace(Replace(Replace(s,
    Key1, Val1), Key2, Val2), Key3, Val3), Key4, Val4), Key5, Val5),
    Key6, Val6), Key7, Val7), Key8, Val8)

\* the record translate is to emit for metric m
ExpectedRecord(m) ==
  [name |-> m.LegacyName,
   expression |-> InTableOrder(PiecesUpTo(m, Len(m.Formula)))]

ExpectedRecords(d) == [k \in 1..Len(d) |-> ExpectedRecord(d[k])]

\* "[EVT_A] * 2" and "[instructions]"
Example1Expr == <<"[">> \o EVT_A \o <<"]", " ", "*", " ", "2">>
Example2Expr == Val1

\* C3: translate emits one record per metric, in order, with name =
\* LegacyName and expression = the Formula with every maximal run of
\* alphabetic/underscore characters that is an alias of the metric replaced
\* by its bracketed Name, everything else copied, and then passed through
\* the table in table order; "a * 2" with a = EVT_A gives "[EVT_A] * 2" and
\* an alias of INST_RETIRED.ANY gives "[instructions]".
C3_TranslatedRecords ==
  mf.kind = "array" =>
    /\ Len(result) = ti
    /\ result = SubSeq(ExpectedRecords(mf.Metrics), 1, ti)
    /\ tpc \in {"returned", "done"} =>
         /\ ti = Len(mf.Metrics)
         /\ files.out = FileOf(ExpectedRecords(mf.Metrics))
    /\ \A k \in 1..ti :
         LET m == mf.Metrics[k]
         IN /\ (m.Events = <<AliasDef(<<"a">>, EVT_A)>> /\ m.Constants = <<>>
                  /\ m.Formula = ExampleFormula)
               => result[k].expression = Example1Expr
            /\ (m.Events = <<AliasDef(<<"a">>, INST_RETIRED_ANY)>>
                  /\ m.Constants = <<>> /\ m.Formula = <<"a">>)
               => result[k].expression = Example2Expr

\* C3's case: the example metric was translated and written
C3_Witness ==
  /\ tpc = "done"
  /\ mf.kind = "array"
  /\ Len(mf.Metrics) = 1
  /\ mf.Metrics[1].Formula = ExampleFormula
  /\ mf.Metrics[1].Events = <<AliasDef(<<"a">>, EVT_A)>>
  /\ files.out.doc[1].expression = Example1Expr

\* the record translate emits for a document holding metric m alone: the
\* table of line 30 is empty when its loop starts
TranslatedAlone(m) ==
  [name |-> m.LegacyName,
   expression |-> ApplyVarMap(Rewrite(m.Formula, Populate(<<>>, m)))]

\* C4: the record emitted for a metric is the one emitted for it in a
\* document that holds it alone, at any position and after any other
\* metrics; after a metric the alias table holds that metric's aliases only.
C4_NoAliasLeak ==
  mf.kind = "array" =>
    /\ \A k \in 1..Len(result) : result[k] = TranslatedAlone(mf.Metrics[k])
    /\ (tpc = "loop" /\ ti >= 1) =>
         DOMAIN vars = {AliasDefs(mf.Metrics[ti])[k].Alias :
                          k \in 1..Len(AliasDefs(mf.Metrics[ti]))}

\* C4's case: the first metric defines alias b, the second uses b without
\* defining it and b is left as it is
C4_Witness ==
  /\ mf.kind = "array"
  /\ Len(result) = 2
  /\ mf.Metrics[1].Constants = <<AliasDef(<<"b">>, Key5)>>
  /\ mf.Metrics[2].Constants = <<>>
  /\ mf.Metrics[2].Events = <<AliasDef(<<"a">>, EVT_A)>>
  /\ mf.Metrics[2].Formula = ProductFormula
  /\ result[2].expression = <<"[">> \o EVT_A \o <<"]", "*", "b">>

\* C5: reconcile gives one entry per usedMetrics entry, in order: the first
\* allMetrics entry of the same name when there is one, else the used entry
\* with its fields kept and origin = "perfspect"; no name absent from
\* usedMetrics appears; when allMetrics is the output of translate an entry
\* carries origin = "perfspect" exactly when its name matched nothing.
C5_Reconciled ==
  (tpc = "done" /\ files.final.exists) =>
    LET all == files.out.doc
        used == files.used.doc
        res == files.final.doc
        Matches(i) == {k \in 1..Len(all) : all[k].name = used[i].name}
    IN /\ Len(res) = Len(used)
       /\ \A i \in 1..Len(used) :
            /\ res[i].name = used[i].name
            /\ Matches(i) # {} =>
                 \E k \in Matches(i) :
                   /\ \A j \in Matches(i) : k <= j
                   /\ res[i] = all[k]
            /\ Matches(i) = {} =>
                 /\ DOMAIN res[i] = DOMAIN used[i] \cup {"origin"}
                 /\ res[i].origin = "perfspect"
                 /\ \A f \in DOMAIN used[i] \ {"origin"} :
                      res[i][f] = used[i][f]
            /\ mf.kind = "array" =>
                 (Matches(i) = {} <=>
                    ("origin" \in DOMAIN res[i] /\ res[i].origin = "perfspect"))
       /\ (/\ all = <<[name |-> "m1", expression |-> <<"[", "X", "]">>]>>
           /\ used = <<[name |-> "m1", expression |-> <<"[", "O", "L", "D", "]">>],
                       [name |-> "m2", expression |-> <<"[", "Y", "]">>]>>)
          => res = <<[name |-> "m1", expression |-> <<"[", "X", "]">>],
                     [name |-> "m2", expression |-> <<"[", "Y", "]">>,
                      origin |-> "perfspect"]>>

\* C5's case: the reconciliation of section 8 of the spec was made, after
\* translate wrote allMetrics
C5_Witness ==
  /\ tpc = "done"
  /\ mf.kind = "array"
  /\ files.final.exists
  /\ files.out.doc = <<[name |-> "m1", expression |-> <<"[", "X", "]">>]>>
  /\ Len(files.used.doc) = 2
  /\ files.used.doc[1].name = "m1"
  /\ files.used.doc[2].name = "m2"
  /\ Len(files.final.doc) = 2
  /\ DOMAIN files.final.doc[2] = {"name", "expression", "origin"}

\* C6: without a Metrics field translate leaves the file at the output path
\* as it was; with a Metrics array, an empty one too, translate returns only
\* after writing the translated array there.
C6_OutputWritten ==
  [][/\ mf.kind # "array" => files' = files
     /\ (mf.kind = "array" /\ tpc' = "returned") =>
          files'.out = FileOf(ExpectedRecords(mf.Metrics))]_allVars

\* C6's cases: translate has returned without a Metrics field, the file of
\* an earlier run still at the output path
C6_Witness ==
  /\ tpc = "returned"
  /\ mf.kind = "null"
  /\ files.out = StaleOut

\* C7: reconcile runs (it opens the translated file, and writes the final
\* file) only with four file arguments and only after translate has written
\* the translated file in this invocation; it is skipped when translate
\* found no Metrics field.
C7_ReconcileOnlyAfterTranslate ==
  (files.final.exists \/ tpc = "error") =>
    (argc = 5 /\ mf.kind = "array")

(***************************************************************************)
(* The claim on the replacement table.                                     *)
(***************************************************************************)
TableKeys == <<Key1, Key2, Key3, Key4, Key5, Key6, Key7, Key8>>
TableVals == <<Val1, Val2, Val3, Val4, Val5, Val6, Val7, Val8>>

\* the characters a pattern of the table starts with
KeyHeads == {TableKeys[k][1] : k \in 1..Len(TableKeys)}

\* the 0-based indices of s where a pattern of the table may start
Starts(s) == {i \in 0..(Len(s) - 1) : s[i + 1] \in KeyHeads}

\* for each pattern of the table, the number of places of s where it occurs
Matches(s) ==
  LET st == Starts(s)
  IN [k \in 1..Len(TableKeys) |->
        Cardinality({i \in st : MatchAt(s, TableKeys[k], i)})]

RECURSIVE SimultaneousFrom(_, _)
\* one substitution of all the matches of the table in s, left to right
\* from index i on
SimultaneousFrom(s, i) ==
  IF i >= Len(s) THEN <<>>
  ELSE LET hit == {k \in 1..Len(TableKeys) : MatchAt(s, TableKeys[k], i)}
       IN IF hit # {}
          THEN LET k == CHOOSE h \in hit : \A g \in hit : h <= g
               IN TableVals[k] \o SimultaneousFrom(s, i + Len(TableKeys[k]))
          ELSE <<s[i + 1]>> \o SimultaneousFrom(s, i + 1)

\* C10: in whatever order the eight entries are applied, an entry applied
\* leaves no match of its pattern and changes the matches of no other
\* pattern, and once all are applied the string is the one the table order
\* gives, the one a simultaneous substitution gives, and holds no pattern
\* of the table (the pass changes it no more).
C10_OrderIndependent ==
  /\ Matches(text) =
       [k \in 1..Len(TableKeys) |->
          IF k \in applied THEN 0 ELSE Matches(text0)[k]]
  /\ applied = 1..Len(TableKeys) =>
       /\ text = InTableOrder(text0)
       /\ text = SimultaneousFrom(text0, 0)
       /\ InTableOrder(text) = text

\* C10's case: every entry applied to "[CPU_CLK_UNHALTED.REF_TSC]" followed
\* by "DURATIONTIMEINSECONDS"
C10_Witness ==
  /\ applied = 1..Len(TableKeys)
  /\ text0 = Key4 \o Key5
  /\ text = Val4 \o Val5

=============================================================================
